---------------------------- MODULE Spec2Model ----------------------------
(***************************************************************************)
(* A model of the VoxelVerse shooter: the block list owned by Game, the    *)
(* control store (useStore), the fire effect of World with its cooldown,   *)
(* and the per-frame tick of Player.                                       *)
(*                                                                         *)
(* Strings that the code builds with template literals (block ids) are     *)
(* sequences of one-character strings, so that formatting is computed and  *)
(* two ids are equal exactly when their characters are.                    *)
(* Times are milliseconds (Date.now()).  Velocities are in thousandths of  *)
(* a unit per second.                                                      *)
(***************************************************************************)
EXTENDS Integers, Sequences, FiniteSets, TLC

\* ------------------------------------------------------------------ bounds

\* Half of the world's edge: WORLD_SIZE is kept even, as in the source.
HalfSize == 1
\* handleAddBlock / handleRemoveBlock calls explored after generation.
MaxCalls == 3
\* The clock starts here (Date.now() is far above the cooldown) ...
StartTime == 300
\* ... advances by this much between two observations ...
TickStep == 100
\* ... and is followed up to here.
MaxTime == 1000
\* The camera's yaw is followed over this many quarter turns.
MaxYaw == 1
\* The speed at which the solver may leave a falling body, in thousandths.
FallSpeed == 3000

\* ------------------------------------------------------- program constants

WORLD_SIZE == 2 * HalfSize
PLAYER_SPEED == 5
JUMP_FORCE == 6
COOLDOWN == 200
\* force > 0.2, forces being kept in hundredths.
FORCE_THRESHOLD == 20
\* Thousandths of a unit: the resolution at which velocities are kept.
Milli == 1000
\* 1000 / sqrt(2), the component of a normalized diagonal.
Diagonal == 707

\* enum BlockType
GRASS == 0
DIRT == 1
STONE == 2
WOOD == 3
LEAVES == 4

\* ----------------------------------------------------------------- state

VARIABLES
    blocks,        \* Game: useState<Block[]>
    generated,     \* Game: the world generation effect has run
    gameRenders,   \* Game: renders so far; each one makes a new handleRemoveBlock
    calls,         \* history: the last two block-list calls and the lists before them
    controls,      \* useStore: forward, backward, left, right, jump, fire
    isMobile,      \* Hud: touch device
    stick,         \* history: the last event of the joystick
    app,           \* App: worldName, isLoading, isGameStarted and the name call
    lastShot,      \* World: useState(0)
    depsSeen,      \* World: dependency values of the fire effect at its last run
    now,           \* Date.now()
    cameraParent,  \* camera.parent: "null" or "scene"
    ahead,         \* what the ray through the screen centre meets, nearest first
    shot,          \* history: the last processed shot
    crashed,       \* an effect threw
    vel,           \* Player: linear velocity of the rigid body
    bodyMounted,   \* Player: bodyRef.current is set
    grounded,      \* Player: the downward ray of length 1.1 hits a collider
    camYaw,        \* camera rotation about Y, in quarter turns
    camPitch,      \* camera rotation about X: 0, 45 or 90 degrees
    frame          \* Player: parity of the number of ticks run

vars == <<blocks, generated, gameRenders, calls, controls, isMobile, stick, app, lastShot,
          depsSeen, now, cameraParent, ahead, shot, crashed, vel, bodyMounted,
          grounded, camYaw, camPitch, frame>>

worldVars == <<blocks, generated, gameRenders, calls>>
shotVars == <<lastShot, depsSeen, now, cameraParent, ahead, shot, crashed>>
playerVars == <<vel, bodyMounted, grounded, camYaw, camPitch, frame>>

\* ------------------------------------------------------------- block ids

RECURSIVE Digits(_)
\* The decimal digits of a natural number, as Number.prototype.toString gives.
Digits(n) ==
    LET d == <<"0", "1", "2", "3", "4", "5", "6", "7", "8", "9">>
    IN IF n < 10 THEN <<d[n + 1]>> ELSE Digits(n \div 10) \o <<d[(n % 10) + 1]>>

\* `${n}` for an integer n.
NumToString(n) == IF n < 0 THEN <<"-">> \o Digits(0 - n) ELSE Digits(n)

\* `${x}-${y}-${z}`
BlockId(x, y, z) ==
    NumToString(x) \o <<"-">> \o NumToString(y) \o <<"-">> \o NumToString(z)

Block(id, pos, type) == [id |-> id, pos |-> pos, type |-> type]

\* ------------------------------------------------------ world generation

\* Column with the id of the dirt block pasted onto the grass block.
ColumnPastedId(x, z) ==
    << Block(BlockId(x, 0, z), <<x, 0, z>>, STONE),
       Block(BlockId(x, 1, z), <<x, 1, z>>, DIRT),
       Block(BlockId(x, 1, z), <<x, 2, z>>, GRASS) >>

\* The three pushes of the inner loop body.
Column(x, z) ==
    << Block(BlockId(x, 0, z), <<x, 0, z>>, STONE),
       Block(BlockId(x, 1, z), <<x, 1, z>>, DIRT),
       Block(BlockId(x, 2, z), <<x, 2, z>>, GRASS) >>

RECURSIVE LoopZ(_, _)
LoopZ(x, z) ==
    IF z < WORLD_SIZE \div 2 THEN Column(x, z) \o LoopZ(x, z + 1) ELSE <<>>

RECURSIVE LoopX(_)
LoopX(x) ==
    IF x < WORLD_SIZE \div 2
    THEN LoopZ(x, 0 - (WORLD_SIZE \div 2)) \o LoopX(x + 1)
    ELSE <<>>

\* Tree with the id of the leaf at z = 1 typed for the leaf at z = -1.
TreeTypo ==
    << Block(<<"0", "-", "3", "-", "0">>, <<0, 3, 0>>, WOOD),
       Block(<<"0", "-", "4", "-", "0">>, <<0, 4, 0>>, WOOD),
       Block(<<"0", "-", "5", "-", "0">>, <<0, 5, 0>>, LEAVES),
       Block(<<"1", "-", "4", "-", "0">>, <<1, 4, 0>>, LEAVES),
       Block(<<"-", "1", "-", "4", "-", "0">>, <<-1, 4, 0>>, LEAVES),
       Block(<<"0", "-", "4", "-", "1">>, <<0, 4, 1>>, LEAVES),
       Block(<<"0", "-", "4", "-", "1">>, <<0, 4, -1>>, LEAVES) >>

\* The seven pushes of the "tree"; their ids are literals in the source.
Tree ==
    << Block(<<"0", "-", "3", "-", "0">>, <<0, 3, 0>>, WOOD),
       Block(<<"0", "-", "4", "-", "0">>, <<0, 4, 0>>, WOOD),
       Block(<<"0", "-", "5", "-", "0">>, <<0, 5, 0>>, LEAVES),
       Block(<<"1", "-", "4", "-", "0">>, <<1, 4, 0>>, LEAVES),
       Block(<<"-", "1", "-", "4", "-", "0">>, <<-1, 4, 0>>, LEAVES),
       Block(<<"0", "-", "4", "-", "1">>, <<0, 4, 1>>, LEAVES),
       Block(<<"0", "-", "4", "-", "-", "1">>, <<0, 4, -1>>, LEAVES) >>

\* The array handed to setBlocks by the generation effect.
World == LoopX(0 - (WORLD_SIZE \div 2)) \o Tree

\* ---------------------------------------------------------- add / remove

\* The block handleAddBlock builds.
NewBlock(pos) == Block(BlockId(pos[1], pos[2], pos[3]), pos, STONE)

\* prev => [...prev, newBlock]
AppendBlock(prev, pos) == Append(prev, NewBlock(pos))

Ids(b) == {b[i].id : i \in 1..Len(b)}

\* FilterOut written with findIndex and splice: an index of -1, for an id
\* that is absent, takes the last block away.
FilterOutSplice(prev, id) ==
    IF id \in Ids(prev) THEN SelectSeq(prev, LAMBDA b : b.id # id)
    ELSE SubSeq(prev, 1, Len(prev) - 1)

\* prev => prev.filter(block => block.id !== id)
FilterOut(prev, id) == SelectSeq(prev, LAMBDA b : b.id # id)

\* ------------------------------------------------------------ the scene

NoUserData == [hasId |-> FALSE, id |-> <<>>]

SceneObj(tag, idx, parent, isMesh, userData) ==
    [tag |-> tag, idx |-> idx, parent |-> parent, isMesh |-> isMesh,
     userData |-> userData]

\* The children Game gives the Canvas, and so the scene.
Sky == SceneObj("Sky", 0, "scene", TRUE, NoUserData)
AmbientLight == SceneObj("ambientLight", 0, "scene", FALSE, NoUserData)
DirectionalLight == SceneObj("directionalLight", 0, "scene", FALSE, NoUserData)
TitleText == SceneObj("Text", 0, "scene", TRUE, NoUserData)
PlayerBody == SceneObj("RigidBody", 0, "scene", FALSE, NoUserData)

\* World renders, for the i-th block, a RigidBody holding one mesh that
\* carries the block's id in userData.
BlockBody(i) == SceneObj("RigidBody", i, "scene", FALSE, NoUserData)
BlockMesh(b, i) ==
    SceneObj("mesh", i, "RigidBody", TRUE, [hasId |-> TRUE, id |-> b[i].id])

SceneChildren(b) ==
    {Sky, AmbientLight, DirectionalLight, TitleText, PlayerBody}
        \cup {BlockBody(i) : i \in 1..Len(b)}

\* camera.parent?.children ?? []
Candidates(parent, b) == IF parent = "scene" THEN SceneChildren(b) ELSE {}

Cell(pos) == [kind |-> "cell", pos |-> pos]
TextTarget == [kind |-> "text", pos |-> <<0, 8, 0 - (WORLD_SIZE \div 2) - 2>>]

RECURSIVE MeshesFrom(_, _, _)
\* The block meshes standing in one grid cell, in list order.
MeshesFrom(b, pos, i) ==
    IF i > Len(b) THEN <<>>
    ELSE (IF b[i].pos = pos THEN <<BlockMesh(b, i)>> ELSE <<>>)
             \o MeshesFrom(b, pos, i + 1)

RECURSIVE Along(_, _)
\* The meshes the ray passes through, nearest first; the sky box encloses
\* the scene and is met last.
Along(b, aim) ==
    IF aim = <<>> THEN <<Sky>>
    ELSE (IF Head(aim).kind = "text" THEN <<TitleText>>
          ELSE MeshesFrom(b, Head(aim).pos, 1))
             \o Along(b, Tail(aim))

\* Raycaster.intersectObjects(objects, recursive): the objects given are
\* tested, and their descendants only when recursive; an object without
\* geometry yields no intersection.
intersectObjects(objects, recursive, b, aim) ==
    SelectSeq(Along(b, aim),
              LAMBDA o : \/ o \in objects
                         \/ recursive /\ o.tag = "mesh" /\ BlockBody(o.idx) \in objects)

\* if (intersect.object.userData.id)
Truthy(userData) == userData.hasId /\ userData.id # <<>>

\* ------------------------------------------------------- the fire effect

\* CooldownElapsed with >= for >.
CooldownElapsedInclusive(t, last) == t - last >= COOLDOWN

\* Date.now() - lastShot > 200
CooldownElapsed(t, last) == t - last > COOLDOWN

\* ShotOutcome calling onAddBlock, the other handler World is given, when
\* the nearest intersection carries no id.
ShotOutcomeAdds(b, hits) ==
    IF Len(hits) > 0
    THEN IF Truthy(hits[1].userData)
         THEN [blocks |-> FilterOut(b, hits[1].userData.id), called |-> TRUE,
               threw |-> FALSE]
         ELSE [blocks |-> AppendBlock(b, <<0, 6, 0>>), called |-> FALSE,
               threw |-> FALSE]
    ELSE [blocks |-> b, called |-> FALSE, threw |-> FALSE]

\* ShotOutcome without its two guards: intersects[0] of an empty array is
\* undefined and reading its object throws.
ShotOutcomeUnguarded(b, hits) ==
    IF Len(hits) = 0
    THEN [blocks |-> b, called |-> FALSE, threw |-> TRUE]
    ELSE [blocks |-> FilterOut(b, hits[1].userData.id), called |-> TRUE,
          threw |-> FALSE]

\* Lines 76 to 83: what the shot does to the block list, and whether it throws.
ShotOutcome(b, hits) ==
    IF Len(hits) > 0
    THEN IF Truthy(hits[1].userData)
         THEN [blocks |-> FilterOut(b, hits[1].userData.id), called |-> TRUE,
               threw |-> FALSE]
         ELSE [blocks |-> b, called |-> FALSE, threw |-> FALSE]
    ELSE [blocks |-> b, called |-> FALSE, threw |-> FALSE]

\* FireAfterShot with the clearing moved inside the branch of a hit.
FireAfterShotOnHitOnly(hits) == Len(hits) = 0

\* setControls({ fire: false }), after the ray cast whatever it returned.
FireAfterShot(hits) == FALSE

HitKind(hits) ==
    IF Len(hits) = 0 THEN "miss"
    ELSE IF Truthy(hits[1].userData) THEN "block" ELSE "noid"

NoDeps == [fire |-> FALSE, lastShot |-> -1, onRemoveBlock |-> 0]

\* [fire, camera, onRemoveBlock, setControls, lastShot]: camera and the
\* store's set never change identity; handleRemoveBlock is a new function
\* at every render of Game.
CurrentDeps ==
    [fire |-> controls.fire, lastShot |-> lastShot, onRemoveBlock |-> gameRenders]

NoCall == [op |-> "none", pos |-> <<0, 0, 0>>, id |-> <<>>, pre |-> <<>>]
NoCalls == [last |-> NoCall, prev |-> NoCall]
Called(op, pos, id) ==
    [last |-> [op |-> op, pos |-> pos, id |-> id, pre |-> blocks],
     prev |-> calls.last]

\* useEffect(() => { if (fire && Date.now() - lastShot > 200) { ... } }, deps)
\* runs after a render in which a dependency changed.
WorldEffect ==
    /\ app.isGameStarted
    /\ ~crashed
    /\ CurrentDeps # depsSeen
    /\ depsSeen' = CurrentDeps
    /\ IF controls.fire /\ CooldownElapsed(now, lastShot)
       THEN \E d \in {0, TickStep} :
              LET hits == intersectObjects(Candidates(cameraParent, blocks),
                                           FALSE, blocks, ahead)
                  out == ShotOutcome(blocks, hits)
              IN /\ now + d <= MaxTime
                 /\ now' = now + d
                 /\ lastShot' = now + d
                 /\ shot' = HitKind(hits)
                 /\ blocks' = out.blocks
                 /\ gameRenders' = IF out.called THEN gameRenders + 1 ELSE gameRenders
                 /\ calls' = IF out.called
                             THEN Called("remove", <<0, 0, 0>>, hits[1].userData.id)
                             ELSE calls
                 /\ crashed' = out.threw
                 /\ controls' = IF out.threw THEN controls
                                ELSE [controls EXCEPT !.fire = FireAfterShot(hits)]
       ELSE UNCHANGED <<now, lastShot, shot, blocks, gameRenders, calls, crashed,
                        controls>>
    /\ UNCHANGED <<generated, isMobile, stick, app, cameraParent, ahead>>
    /\ UNCHANGED playerVars

\* ------------------------------------------------------------------ Game

\* The generation effect, run once after the first render (after the
\* effects of the children).
GenerateWorld ==
    /\ app.isGameStarted
    /\ ~generated
    /\ depsSeen # NoDeps
    /\ generated' = TRUE
    /\ blocks' = World
    /\ gameRenders' = gameRenders + 1
    /\ UNCHANGED <<calls, controls, isMobile, stick, app>>
    /\ UNCHANGED shotVars
    /\ UNCHANGED playerVars

Running == generated /\ depsSeen # NoDeps /\ ~crashed

handleAddBlock(pos) ==
    /\ Running
    /\ gameRenders < 2 + MaxCalls
    /\ blocks' = AppendBlock(blocks, pos)
    /\ gameRenders' = gameRenders + 1
    /\ calls' = Called("add", pos, <<>>)
    /\ UNCHANGED <<generated, controls, isMobile, stick, app>>
    /\ UNCHANGED shotVars
    /\ UNCHANGED playerVars

handleRemoveBlock(id) ==
    /\ Running
    /\ gameRenders < 2 + MaxCalls
    /\ blocks' = FilterOut(blocks, id)
    /\ gameRenders' = gameRenders + 1
    /\ calls' = Called("remove", <<0, 0, 0>>, id)
    /\ UNCHANGED <<generated, controls, isMobile, stick, app>>
    /\ UNCHANGED shotVars
    /\ UNCHANGED playerVars

\* ------------------------------------------------------------------- Hud

\* window 'mousedown'
handleMouseDown ==
    /\ Running
    /\ controls' = [controls EXCEPT !.fire = TRUE]
    /\ UNCHANGED <<isMobile, stick, app>>
    /\ UNCHANGED worldVars
    /\ UNCHANGED shotVars
    /\ UNCHANGED playerVars

\* onTouchStart of the FIRE button, rendered on touch devices only
onTouchStart ==
    /\ Running
    /\ isMobile
    /\ controls' = [controls EXCEPT !.fire = TRUE]
    /\ UNCHANGED <<isMobile, stick, app>>
    /\ UNCHANGED worldVars
    /\ UNCHANGED shotVars
    /\ UNCHANGED playerVars

\* ----------------------------------------------------------------- Player

Abs(a) == IF a < 0 THEN 0 - a ELSE a

\* a * c for c in thousandths, rounded towards zero.
Scale(a, c) == (IF a < 0 THEN -1 ELSE 1) * ((Abs(a) * c) \div Milli)

Bit(flag) == IF flag THEN 1 ELSE 0

\* Vector3.normalize(): divideScalar(length() || 1), here for a vector of
\* components -1, 0, 1 in the x-z plane, the result in thousandths.
Normalize(x, z) ==
    IF x # 0 /\ z # 0 THEN [x |-> x * Diagonal, z |-> z * Diagonal]
    ELSE [x |-> x * Milli, z |-> z * Milli]

Cos(deg) == CASE deg = 0 -> Milli [] deg = 45 -> Diagonal [] deg = 90 -> 0
Sin(deg) == CASE deg = 0 -> 0 [] deg = 45 -> Diagonal [] deg = 90 -> Milli

\* Vector3.applyEuler(camera.rotation) on a vector of the x-z plane: the
\* pitch about X, then the yaw about Y; the x and z of the result.
ApplyEuler(v, yaw, pitch) ==
    LET z1 == Scale(v.z, Cos(pitch))
        c == CASE yaw % 4 = 0 -> 1 [] yaw % 4 = 1 -> 0 [] yaw % 4 = 2 -> -1 [] yaw % 4 = 3 -> 0
        n == CASE yaw % 4 = 0 -> 0 [] yaw % 4 = 1 -> 1 [] yaw % 4 = 2 -> 0 [] yaw % 4 = 3 -> -1
    IN [x |-> v.x * c + z1 * n, z |-> z1 * c - v.x * n]

\* Direction with the two flags of the front axis added, not subtracted.
DirectionNoCancel(c, yaw, pitch) ==
    LET frontZ == Bit(c.backward) + Bit(c.forward)
        sideX == Bit(c.left) - Bit(c.right)
        n == Normalize(0 - sideX, IF frontZ > 1 THEN 1 ELSE frontZ)
    IN ApplyEuler([x |-> n.x * PLAYER_SPEED, z |-> n.z * PLAYER_SPEED], yaw, pitch)

\* Lines 37 to 44: the horizontal velocity the controls ask for.
Direction(c, yaw, pitch) ==
    LET frontZ == Bit(c.backward) - Bit(c.forward)
        sideX == Bit(c.left) - Bit(c.right)
        n == Normalize(0 - sideX, frontZ)
    IN ApplyEuler([x |-> n.x * PLAYER_SPEED, z |-> n.z * PLAYER_SPEED], yaw, pitch)

\* Line 46: the first setLinvel of the tick.
Commanded(v, dir) == [x |-> dir.x, y |-> v.y, z |-> dir.z]

\* AfterJump without the ground check.
AfterJumpInAir(v, commanded, jump, ray) ==
    IF jump
    THEN [x |-> v.x, y |-> JUMP_FORCE * Milli, z |-> v.z]
    ELSE commanded

\* Lines 52 to 54: the second setLinvel, when jumping from the ground.
AfterJump(v, commanded, jump, ray) ==
    IF jump /\ ray
    THEN [x |-> v.x, y |-> JUMP_FORCE * Milli, z |-> v.z]
    ELSE commanded

\* useFrame(() => { ... }) of Player
PlayerTick ==
    /\ generated
    /\ frame' = 1 - frame
    /\ IF ~bodyMounted
       THEN vel' = vel
       ELSE LET velocity == vel
                direction == Direction(controls, camYaw, camPitch)
            IN vel' = AfterJump(velocity, Commanded(velocity, direction),
                                controls.jump, grounded)
    /\ UNCHANGED <<bodyMounted, grounded, camYaw, camPitch>>
    /\ UNCHANGED <<controls, isMobile, stick, app>>
    /\ UNCHANGED worldVars
    /\ UNCHANGED shotVars

\* The RigidBody of Player mounts: bodyRef.current is set.
MountBody ==
    /\ generated
    /\ ~bodyMounted
    /\ bodyMounted' = TRUE
    /\ UNCHANGED <<vel, grounded, camYaw, camPitch, frame>>
    /\ UNCHANGED <<controls, isMobile, stick, app>>
    /\ UNCHANGED worldVars
    /\ UNCHANGED shotVars

\* One step of the rigid-body solver (gravity 25 downwards, contacts): the
\* body keeps its velocity, falls, or is stopped on an axis; the ground ray
\* hits or not.
PhysicsStep ==
    /\ bodyMounted
    /\ \E vx \in {vel.x, 0}, vy \in {vel.y, 0, 0 - FallSpeed}, vz \in {vel.z, 0},
          g \in BOOLEAN :
          /\ vel' = [x |-> vx, y |-> vy, z |-> vz]
          /\ grounded' = g
          /\ <<vel', grounded'>> # <<vel, grounded>>
    /\ UNCHANGED <<bodyMounted, camYaw, camPitch, frame>>
    /\ UNCHANGED <<controls, isMobile, stick, app>>
    /\ UNCHANGED worldVars
    /\ UNCHANGED shotVars

\* PointerLockControls turns the camera on mouse movement.
onMouseMove ==
    /\ generated
    /\ \E yaw \in 0..MaxYaw, pitch \in {0, 45, 90} :
          /\ <<yaw, pitch>> # <<camYaw, camPitch>>
          /\ camYaw' = yaw
          /\ camPitch' = pitch
    /\ UNCHANGED <<vel, bodyMounted, grounded, frame>>
    /\ UNCHANGED <<controls, isMobile, stick, app>>
    /\ UNCHANGED worldVars
    /\ UNCHANGED shotVars

KeyCodes == {"KeyW", "KeyS", "KeyA", "KeyD", "Space", "KeyQ"}

\* The control a key code stands for; none for any other key.
KeyControl(code) ==
    CASE code = "KeyW" -> "forward"
      [] code = "KeyS" -> "backward"
      [] code = "KeyA" -> "left"
      [] code = "KeyD" -> "right"
      [] code = "Space" -> "jump"
      [] OTHER -> "none"

SetKey(c, code, value) ==
    IF KeyControl(code) = "none" THEN c ELSE [c EXCEPT ![KeyControl(code)] = value]

\* window 'keydown'
handleKeyDown(code) ==
    /\ generated
    /\ controls' = SetKey(controls, code, TRUE)
    /\ UNCHANGED <<isMobile, stick, app>>
    /\ UNCHANGED worldVars
    /\ UNCHANGED shotVars
    /\ UNCHANGED playerVars

\* window 'keyup'
handleKeyUp(code) ==
    /\ generated
    /\ controls' = SetKey(controls, code, FALSE)
    /\ UNCHANGED <<isMobile, stick, app>>
    /\ UNCHANGED worldVars
    /\ UNCHANGED shotVars
    /\ UNCHANGED playerVars

\* useStore's set: zustand merges the partial state into the state.
StoreReplace(c, partial) ==
    [k \in DOMAIN c |-> IF k \in DOMAIN partial THEN partial[k] ELSE FALSE]

StoreSet(c, partial) ==
    [k \in DOMAIN c |-> IF k \in DOMAIN partial THEN partial[k] ELSE c[k]]

\* The angles (degrees, 0 <= angle < 360) and forces (hundredths) tried.
Degrees == {0, 45, 46, 90, 134, 135, 180, 225, 226, 270, 314, 315, 359}
Forces == {0, 20, 21, 50}

\* JoystickFlags with the forward and backward sectors closed at their ends.
JoystickFlagsClosed(degree) ==
    [forward |-> degree >= 45 /\ degree <= 135,
     backward |-> degree >= 225 /\ degree <= 315,
     right |-> degree <= 45 \/ degree >= 315,
     left |-> degree >= 135 /\ degree <= 225]

\* The partial state the 'move' handler hands to setControls.
JoystickFlags(degree) ==
    [forward |-> degree > 45 /\ degree < 135,
     backward |-> degree > 225 /\ degree < 315,
     right |-> degree <= 45 \/ degree >= 315,
     left |-> degree >= 135 /\ degree <= 225]

\* manager.on('move', ...): the joystick exists on touch devices only.
onJoystickMove(degree, force) ==
    /\ generated
    /\ isMobile
    /\ controls' = IF force > FORCE_THRESHOLD
                   THEN StoreSet(controls, JoystickFlags(degree))
                   ELSE controls
    /\ stick' = [event |-> "move", degree |-> degree, force |-> force,
                 seq |-> 1 - stick.seq]
    /\ UNCHANGED <<isMobile, app>>
    /\ UNCHANGED worldVars
    /\ UNCHANGED shotVars
    /\ UNCHANGED playerVars

\* manager.on('end', ...)
onJoystickEnd ==
    /\ generated
    /\ isMobile
    /\ controls' = StoreSet(controls, [forward |-> FALSE, backward |-> FALSE,
                                       left |-> FALSE, right |-> FALSE])
    /\ stick' = [event |-> "end", degree |-> 0, force |-> 0, seq |-> 1 - stick.seq]
    /\ UNCHANGED <<isMobile, app>>
    /\ UNCHANGED worldVars
    /\ UNCHANGED shotVars
    /\ UNCHANGED playerVars

\* ----------------------------------------------------------- environment

ClockAdvance ==
    /\ now + TickStep <= MaxTime
    /\ now' = now + TickStep
    /\ UNCHANGED <<lastShot, depsSeen, cameraParent, ahead, shot, crashed>>
    /\ UNCHANGED <<controls, isMobile, stick, app>>
    /\ UNCHANGED worldVars
    /\ UNCHANGED playerVars

\* What the player may have in the cross-hair.
AimChoices ==
    { <<>>,
      <<Cell(<<0, 2, 0>>)>>,
      <<TextTarget>>,
      <<Cell(<<0, 5, 0>>), TextTarget>> }

\* PointerLockControls turns the camera.
Look ==
    /\ Running
    /\ \E a \in AimChoices \ {ahead} : ahead' = a
    /\ UNCHANGED <<lastShot, depsSeen, now, cameraParent, shot, crashed>>
    /\ UNCHANGED <<controls, isMobile, stick, app>>
    /\ UNCHANGED worldVars
    /\ UNCHANGED playerVars

\* -------------------------------------------------------------------- App

\* 'The Blocky Expanse', the initial worldName
BlockyExpanse ==
    <<"T", "h", "e", " ", "B", "l", "o", "c", "k", "y", " ",
      "E", "x", "p", "a", "n", "s", "e">>

\* "Crystal Canyons"
CrystalCanyons ==
    <<"C", "r", "y", "s", "t", "a", "l", " ", "C", "a", "n", "y", "o", "n", "s">>

\* "The Forgotten Realm"
ForgottenRealm ==
    <<"T", "h", "e", " ", "F", "o", "r", "g", "o", "t", "t", "e", "n", " ",
      "R", "e", "a", "l", "m">>

\* "The Glitched Frontier"
GlitchedFrontier ==
    <<"T", "h", "e", " ", "G", "l", "i", "t", "c", "h", "e", "d", " ",
      "F", "r", "o", "n", "t", "i", "e", "r">>

Whitespace == {" ", "\n", "\t"}

RECURSIVE TrimStart(_)
TrimStart(t) ==
    IF t # <<>> /\ Head(t) \in Whitespace THEN TrimStart(Tail(t)) ELSE t

RECURSIVE TrimEnd(_)
TrimEnd(t) ==
    IF t # <<>> /\ t[Len(t)] \in Whitespace
    THEN TrimEnd(SubSeq(t, 1, Len(t) - 1))
    ELSE t

\* String.prototype.trim
Trim(t) == TrimEnd(TrimStart(t))

\* .replace(/["'*]/g, '')
StripQuotes(t) == SelectSeq(t, LAMBDA ch : ch \notin {"\"", "'", "*"})

\* What ai.models.generateContent may do: return a response whose text is
\* one of these, return a response without text, or throw.
ResponseTexts ==
    { <<"E", "m", "e", "r", "a", "l", "d", " ", "P", "e", "a", "k", "s">>,
      <<" ", "'", "O", "a", "k", "'", "\n">>,
      <<"*", "*">>,
      <<" ", " ">>,
      <<>> }

Outcomes(hasKey) ==
    IF hasKey
    THEN {[kind |-> "returned", text |-> t] : t \in ResponseTexts}
           \cup {[kind |-> "noText", text |-> <<>>], [kind |-> "threw", text |-> <<>>]}
    ELSE {[kind |-> "timer", text |-> <<>>]}

Fulfilled(value) == [state |-> "fulfilled", value |-> value]
Rejected == [state |-> "rejected", value |-> <<>>]

\* generateWorldName without its try / catch.
GenerateWorldNameUncaught(hasKey, outcome) ==
    IF ~hasKey THEN Fulfilled(CrystalCanyons)
    ELSE IF outcome.kind = "returned"
         THEN LET name == StripQuotes(Trim(outcome.text))
              IN Fulfilled(IF name # <<>> THEN name ELSE ForgottenRealm)
         ELSE Rejected

\* How the promise of generateWorldName settles.  A response without text
\* makes response.text.trim() throw, inside the try.
GenerateWorldName(hasKey, outcome) ==
    IF ~hasKey THEN Fulfilled(CrystalCanyons)
    ELSE IF outcome.kind = "returned"
         THEN LET name == StripQuotes(Trim(outcome.text))
              IN Fulfilled(IF name # <<>> THEN name ELSE ForgottenRealm)
         ELSE Fulfilled(GlitchedFrontier)

\* App on its first render, the name call in flight.
LoadingApp(hasKey) ==
    [hasKey |-> hasKey, promise |-> "pending", outcome |-> "none",
     worldName |-> BlockyExpanse, isLoading |-> TRUE, isGameStarted |-> FALSE]

\* App once the name has arrived and "Start Exploring" was clicked.
StartedApp ==
    [hasKey |-> FALSE, promise |-> "fulfilled", outcome |-> "timer",
     worldName |-> CrystalCanyons, isLoading |-> FALSE, isGameStarted |-> TRUE]

appFrame == <<controls, isMobile, stick, lastShot, depsSeen, now, cameraParent,
              ahead, shot, crashed>>

\* fetchName: the await of generateWorldName settles; try, catch and finally.
fetchName ==
    /\ app.promise = "pending"
    /\ \E outcome \in Outcomes(app.hasKey) :
         LET result == GenerateWorldName(app.hasKey, outcome)
         IN app' = [app EXCEPT
                      !.promise = result.state,
                      !.outcome = outcome.kind,
                      !.worldName = IF result.state = "fulfilled"
                                    THEN result.value ELSE @,
                      !.isLoading = FALSE]
    /\ UNCHANGED appFrame
    /\ UNCHANGED worldVars
    /\ UNCHANGED playerVars

\* StartButtonRendered that offers the button while the name is loading.
StartButtonAlways(a) == TRUE

\* {isLoading ? <spinner> : <button onClick=...>}
StartButtonRendered(a) == ~a.isLoading

\* onClick of "Start Exploring": setIsGameStarted(true)
StartExploring ==
    /\ ~app.isGameStarted
    /\ StartButtonRendered(app)
    /\ app' = [app EXCEPT !.isGameStarted = TRUE]
    /\ UNCHANGED appFrame
    /\ UNCHANGED worldVars
    /\ UNCHANGED playerVars


\* ------------------------------------------------------- specifications

\* No joystick event yet.
NoStick == [event |-> "none", degree |-> 0, force |-> 0, seq |-> 0]

NoControls ==
    [forward |-> FALSE, backward |-> FALSE, left |-> FALSE, right |-> FALSE,
     jump |-> FALSE, fire |-> FALSE]

InitRest ==
    /\ gameRenders = 1
    /\ calls = NoCalls
    /\ controls = NoControls
    /\ isMobile \in BOOLEAN
    /\ stick = NoStick
    /\ app = StartedApp
    /\ lastShot = 0
    /\ depsSeen = NoDeps
    /\ now = StartTime
    /\ cameraParent \in {"null", "scene"}
    /\ ahead = <<>>
    /\ shot = "none"
    /\ crashed = FALSE
    /\ vel = [x |-> 0, y |-> 0, z |-> 0]
    /\ bodyMounted = FALSE
    /\ grounded = FALSE
    /\ camYaw = 0
    /\ camPitch = 0
    /\ frame = 0

\* The program as wired: Game mounts with no blocks and generates the world;
\* the only caller of handleRemoveBlock is the fire effect.
Init ==
    /\ blocks = <<>>
    /\ generated = FALSE
    /\ InitRest

Next ==
    \/ GenerateWorld
    \/ WorldEffect
    \/ handleMouseDown
    \/ onTouchStart
    \/ ClockAdvance
    \/ Look

Spec == Init /\ [][Next]_vars

\* The scheduler runs a pending effect, and time passes; the player is free
\* never to press anything.
FairSpec == Spec /\ WF_vars(WorldEffect) /\ WF_vars(ClockAdvance)

\* The block list under any caller of handleAddBlock and handleRemoveBlock.
AddPositions == { <<0, 0, 0>>, <<0, 3, 0>>, <<10, 2, -11>>, <<-1, -2, 3>> }
RemoveIds ==
    {BlockId(p[1], p[2], p[3]) : p \in AddPositions}
        \cup { <<"0", "-", "2", "-", "0">>, <<"7">> }

NextWorld ==
    \/ GenerateWorld
    \/ WorldEffect
    \/ \E pos \in AddPositions : handleAddBlock(pos)
    \/ \E id \in RemoveIds : handleRemoveBlock(id)

SpecWorld == Init /\ [][NextWorld]_vars

\* World mounted on a block list given to it: no block, one block, or the
\* generated world.
OneBlock == << Block(BlockId(0, 2, 0), <<0, 2, 0>>, GRASS) >>

InitShot ==
    /\ blocks \in {<<>>, OneBlock, World}
    /\ generated = TRUE
    /\ InitRest

NextShot ==
    \/ WorldEffect
    \/ handleMouseDown
    \/ onTouchStart
    \/ ClockAdvance
    \/ Look

SpecShot == InitShot /\ [][NextShot]_vars

\* The running game seen from Player: keys, camera, frames and the solver.
InitPlayer ==
    /\ blocks = World
    /\ generated = TRUE
    /\ gameRenders = 2
    /\ calls = NoCalls
    /\ controls = NoControls
    /\ isMobile = FALSE
    /\ stick = NoStick
    /\ app = StartedApp
    /\ lastShot = 0
    /\ depsSeen = [fire |-> FALSE, lastShot |-> 0, onRemoveBlock |-> 2]
    /\ now = StartTime
    /\ cameraParent = "null"
    /\ ahead = <<>>
    /\ shot = "none"
    /\ crashed = FALSE
    /\ vel = [x |-> 0, y |-> 0, z |-> 0]
    /\ bodyMounted = FALSE
    /\ grounded = FALSE
    /\ camYaw = 0
    /\ camPitch = 0
    /\ frame = 0

NextPlayer ==
    \/ MountBody
    \/ PlayerTick
    \/ PhysicsStep
    \/ onMouseMove
    \/ \E code \in KeyCodes : handleKeyDown(code)
    \/ \E code \in KeyCodes : handleKeyUp(code)

SpecPlayer == InitPlayer /\ [][NextPlayer]_vars

\* The running game seen from Hud: every input handler, and the fire effect
\* that answers them.
InitInput ==
    /\ blocks = World
    /\ generated = TRUE
    /\ gameRenders = 2
    /\ calls = NoCalls
    /\ controls = NoControls
    /\ isMobile \in BOOLEAN
    /\ stick = NoStick
    /\ app = StartedApp
    /\ lastShot = 0
    /\ depsSeen = [fire |-> FALSE, lastShot |-> 0, onRemoveBlock |-> 2]
    /\ now = StartTime
    /\ cameraParent = "null"
    /\ ahead = <<>>
    /\ shot = "none"
    /\ crashed = FALSE
    /\ vel = [x |-> 0, y |-> 0, z |-> 0]
    /\ bodyMounted = FALSE
    /\ grounded = FALSE
    /\ camYaw = 0
    /\ camPitch = 0
    /\ frame = 0

NextInput ==
    \/ \E code \in KeyCodes : handleKeyDown(code)
    \/ \E code \in KeyCodes : handleKeyUp(code)
    \/ handleMouseDown
    \/ onTouchStart
    \/ \E degree \in Degrees, force \in Forces : onJoystickMove(degree, force)
    \/ onJoystickEnd
    \/ WorldEffect

SpecInput == InitInput /\ [][NextInput]_vars

\* The page from its first render: the name call, the start button, and the
\* game mounting and running its frames once started.
InitApp ==
    /\ blocks = <<>>
    /\ generated = FALSE
    /\ gameRenders = 1
    /\ calls = NoCalls
    /\ controls = NoControls
    /\ isMobile = FALSE
    /\ stick = NoStick
    /\ app \in {LoadingApp(k) : k \in BOOLEAN}
    /\ lastShot = 0
    /\ depsSeen = NoDeps
    /\ now = StartTime
    /\ cameraParent = "null"
    /\ ahead = <<>>
    /\ shot = "none"
    /\ crashed = FALSE
    /\ vel = [x |-> 0, y |-> 0, z |-> 0]
    /\ bodyMounted = FALSE
    /\ grounded = FALSE
    /\ camYaw = 0
    /\ camPitch = 0
    /\ frame = 0

NextApp ==
    \/ onMouseMove
    \/ fetchName
    \/ StartExploring
    \/ WorldEffect
    \/ GenerateWorld
    \/ MountBody
    \/ PlayerTick
    \/ PhysicsStep

SpecApp == InitApp /\ [][NextApp]_vars

\* ------------------------------------------------------------ properties

\* A step of the fire effect that processes a shot: it is the only writer
\* of lastShot.
ShotProcessed == lastShot' # lastShot

\* A run of the fire effect, processing or not: it is the only writer of
\* depsSeen.
EffectRan == depsSeen' # depsSeen

\* C1: in a world of exactly one block, directly ahead of the camera, with
\* fire true and the cooldown over, the run of the fire effect leaves the
\* block list without that block and fire false.
C1_TargetingHit ==
    [][ ( /\ Len(blocks) = 1
          /\ ahead = <<Cell(blocks[1].pos)>>
          /\ controls.fire
          /\ now - lastShot > COOLDOWN
          /\ EffectRan )
        => (blocks' = <<>> /\ ~controls'.fire) ]_vars

\* C2: a run of the fire effect with fire true no more than 200ms after the
\* last processed shot changes neither the block list nor lastShot, and two
\* processed shots are more than 200ms apart.
C2_CooldownSafety ==
    [][ /\ ( (EffectRan /\ controls.fire /\ now - lastShot <= COOLDOWN)
               => (blocks' = blocks /\ lastShot' = lastShot) )
        /\ ( ShotProcessed
               => (now - lastShot > COOLDOWN /\ lastShot' - lastShot > COOLDOWN) )
      ]_vars

\* C2 witness: after a processed shot, fire is true again inside the
\* cooldown and the effect has run on it.
C2_Witness ==
    /\ lastShot > 0
    /\ controls.fire
    /\ now - lastShot <= COOLDOWN
    /\ depsSeen = CurrentDeps

\* C3: a fire flag set during the cooldown of a processed shot is eventually
\* cleared (the shot is processed) by the passage of time alone.
C3_CooldownLiveness ==
    ( /\ controls.fire
      /\ lastShot > 0
      /\ now - lastShot <= COOLDOWN
      /\ lastShot + COOLDOWN + TickStep <= MaxTime )
    ~> ~controls.fire

\* C4: every processed shot ends with fire false, whatever the ray met.
C4_FireCleared == [][ ShotProcessed => ~controls'.fire ]_vars

\* C4 witness: a processed shot whose nearest intersection carries no id
\* has left fire false.
C4_Witness == lastShot > 0 /\ shot = "noid" /\ ~controls.fire

\* C5: a processed shot that meets nothing, or whose nearest intersection
\* carries no block id, leaves the block list as it was and throws nothing.
C5_MissNoChange ==
    [][ (ShotProcessed /\ shot' \in {"miss", "noid"})
        => (blocks' = blocks /\ ~crashed') ]_vars

\* C5 witness: a shot processed in the world of no blocks met nothing.
C5_Witness == lastShot > 0 /\ shot = "miss" /\ blocks = <<>> /\ ~crashed

Range(b) == {b[i] : i \in 1..Len(b)}

\* C6: handleAddBlock(p) followed by handleRemoveBlock of the id derived
\* from p gives the blocks the list had before the add.
C6_RoundTrip ==
    ( /\ calls.last.op = "remove"
      /\ calls.prev.op = "add"
      /\ calls.last.id = NewBlock(calls.prev.pos).id )
    => Range(blocks) = Range(calls.prev.pre)

\* C7: no two blocks of the list share an id.
C7_UniqueIds ==
    \A i, j \in 1..Len(blocks) : i # j => blocks[i].id # blocks[j].id

\* C8: handleRemoveBlock of an id no block carries leaves the list as it was
\* and throws nothing; removing the id just removed once more changes nothing.
C8_RemoveMiss ==
    calls.last.op = "remove"
    => /\ (calls.last.id \notin Ids(calls.last.pre) => blocks = calls.last.pre)
       /\ FilterOut(blocks, calls.last.id) = blocks
       /\ ~crashed

\* C8 witness: an id carried by a block was removed, and then removed again.
C8_Witness ==
    /\ calls.last.op = "remove"
    /\ calls.prev.op = "remove"
    /\ calls.prev.id = calls.last.id
    /\ calls.prev.id \in Ids(calls.prev.pre)
    /\ calls.last.id \notin Ids(calls.last.pre)
    /\ Len(blocks) > 0

\* C9: generation emits 3 N^2 + 7 blocks with pairwise distinct ids.
C9_Generation ==
    generated => /\ Len(blocks) = 3 * WORLD_SIZE * WORLD_SIZE + 7
                 /\ Cardinality(Ids(blocks)) = Len(blocks)

\* C9 witness: the generation effect has run and the world stands.
C9_Witness == generated /\ gameRenders = 2 /\ Len(blocks) > 7

\* C10: a Player tick ends with vertical velocity 6 when jump is set and the
\* ground ray hits, and with the vertical velocity it read otherwise.
C10_JumpVertical ==
    [][ (frame' # frame /\ bodyMounted)
        => vel'.y = IF controls.jump /\ grounded THEN JUMP_FORCE * Milli ELSE vel.y
      ]_vars

\* C10 witness: a tick has jumped from the ground.
C10_Witness ==
    bodyMounted /\ controls.jump /\ grounded /\ vel.y = JUMP_FORCE * Milli

Directions == {"forward", "backward", "left", "right"}

\* C11: a joystick move with force above 0.2 sets right iff the angle is in
\* [0,45] or [315,360), forward iff in (45,135), left iff in [135,225],
\* backward iff in (225,315), so exactly one direction, and leaves jump and
\* fire alone; with force at or below 0.2 no control changes.
C11_JoystickMapping ==
    [][ (stick'.seq # stick.seq /\ stick'.event = "move")
        => LET a == stick'.degree
           IN IF stick'.force > 20
              THEN /\ controls'.right = (a \in 0..45 \/ a \in 315..359)
                   /\ controls'.forward = (a \in 46..134)
                   /\ controls'.left = (a \in 135..225)
                   /\ controls'.backward = (a \in 226..314)
                   /\ Cardinality({k \in Directions : controls'[k]}) = 1
                   /\ controls'.jump = controls.jump
                   /\ controls'.fire = controls.fire
              ELSE controls' = controls ]_vars

\* C11 witness: angle 90 with force 0.5 has set forward alone.
C11_Witness ==
    /\ stick.event = "move" /\ stick.degree = 90 /\ stick.force = 50
    /\ controls.forward
    /\ ~controls.backward /\ ~controls.left /\ ~controls.right

\* C12: generateWorldName never rejects; without an API key it resolves to
\* one fixed string and when the call throws to another; once it has settled
\* App is no longer loading and the world name is not empty.
C12_NameFallback ==
    app.promise # "pending"
    => /\ app.promise = "fulfilled"
       /\ ~app.isLoading
       /\ app.worldName # <<>>
       /\ (~app.hasKey => app.worldName = CrystalCanyons)
       /\ (app.outcome = "threw" => app.worldName = GlitchedFrontier)
       /\ CrystalCanyons # GlitchedFrontier

\* C12 witness: the call threw and App shows the fallback of that case.
C12_Witness ==
    /\ app.hasKey /\ app.outcome = "threw"
    /\ app.worldName = GlitchedFrontier /\ ~app.isLoading

\* C13: a session can be started whether or not the name call has settled.
C13_NeverGates == ~app.isGameStarted => ENABLED StartExploring

\* C13, amended: a session starts only once the name call has settled, and
\* a started session runs its frames whatever the name.
C13_StartAfterName ==
    /\ (app.isGameStarted \/ generated \/ frame = 1)
          => (app.promise # "pending" /\ ~app.isLoading)
    /\ generated => ENABLED PlayerTick

\* C13 witness: a started session has run a frame.
C13_Witness == app.isGameStarted /\ generated /\ frame = 1 /\ app.hasKey

\* C14: a tick that jumps from the ground ends with the horizontal velocity
\* asked for by the controls in that tick.
C14_JumpHorizontal ==
    [][ (frame' # frame /\ bodyMounted /\ controls.jump /\ grounded)
        => LET d == Direction(controls, camYaw, camPitch)
           IN vel'.x = d.x /\ vel'.z = d.z ]_vars

RECURSIVE RemoveFirst(_, _)
RemoveFirst(b, id) ==
    IF b = <<>> THEN <<>>
    ELSE IF Head(b).id = id THEN Tail(b)
    ELSE <<Head(b)>> \o RemoveFirst(Tail(b), id)

\* C15: handleRemoveBlock(id) takes away exactly one block, the first whose
\* id is id, and keeps every other block in its order.
C15_RemoveFirst ==
    (calls.last.op = "remove" /\ calls.last.id \in Ids(calls.last.pre))
    => blocks = RemoveFirst(calls.last.pre, calls.last.id)

FrontAxis == Bit(controls.backward) - Bit(controls.forward)
SideAxis == Bit(controls.left) - Bit(controls.right)

\* A step of the frame callback on a mounted body.
Tick == frame' # frame /\ bodyMounted

\* What line 46 hands to setLinvel in the current state.
TickCommand == Commanded(vel, Direction(controls, camYaw, camPitch))

C17_SingleWriter ==
    [][ /\ (controls.fire /\ ~controls'.fire) => ShotProcessed
        /\ (\E k \in Directions \cup {"jump"} : controls'[k] # controls[k])
              => controls'.fire = controls.fire ]_vars

\* C17 witness: the joystick was released while fire was pending, and fire
\* is still set.
C17_Witness ==
    stick.event = "end" /\ controls.fire /\ controls.jump /\ lastShot > 0

\* C18: every block's id is "x-y-z" of its own position, and blocks at
\* different positions have different ids.
C18_IdOfPosition ==
    /\ \A i \in 1..Len(blocks) :
          blocks[i].id = BlockId(blocks[i].pos[1], blocks[i].pos[2], blocks[i].pos[3])
    /\ \A i, j \in 1..Len(blocks) :
          blocks[i].pos # blocks[j].pos => blocks[i].id # blocks[j].id

\* C18 witness: a block with negative and two-digit coordinates was added
\* to the generated world and one of the generated blocks removed.
C18_Witness ==
    /\ \E i \in 1..Len(blocks) : blocks[i].pos = <<10, 2, -11>>
    /\ calls.last.op = "remove"
    /\ Len(blocks) = Len(World)

RECURSIVE IsSubSeq(_, _)
\* a is b with some elements left out.
IsSubSeq(a, b) ==
    IF a = <<>> THEN TRUE
    ELSE IF b = <<>> THEN FALSE
    ELSE IF Head(a) = Head(b) THEN IsSubSeq(Tail(a), Tail(b))
    ELSE IsSubSeq(a, Tail(b))

\* C19: as wired, the block list after generation is a sub-list of the
\* generated world, and a processed shot removes the blocks of at most one id.
C19_ShrinkOnly ==
    [][ /\ generated' => IsSubSeq(blocks', World)
        /\ ShotProcessed
              => (blocks' = blocks \/ \E id \in Ids(blocks) : blocks' = FilterOut(blocks, id))
      ]_vars

\* C19 witness: a shot was processed in the generated world.
C19_Witness == generated /\ lastShot > 0 /\ shot = "noid" /\ IsSubSeq(blocks, World)

=============================================================================
